---- MODULE Spec2Model ----
(***************************************************************************)
(* The virtual-memory core of os4: the stack frame allocator               *)
(* (mm/frame_allocator.rs) and the three-level page table                  *)
(* (mm/page_table.rs).                                                     *)
(*                                                                         *)
(* Representation.                                                         *)
(*  - Option<T> is a sequence of length at most one: None is <<>>,         *)
(*    Some(x) is <<x>>.                                                    *)
(*  - A panic (panic!, assert!, unwrap on None) sets `fatal`; the kernel   *)
(*    stops there, so no action is enabled once fatal holds.  The state    *)
(*    keeps every write made before the panic.                             *)
(*  - A 64-bit word does not fit TLC's integers, so a word of memory is    *)
(*    held as its bit fields: [rsv: bits 54..63, ppn: bits 10..53,         *)
(*    rsw: bits 8..9, fl: bits 0..7].  A PhysPageNum is [ext, num], the    *)
(*    number ext * 2^44 + num with num < 2^44.                             *)
(*  - A frame holds NIdx words (512 in the kernel), and a virtual page     *)
(*    number is three base-NIdx digits.                                    *)
(***************************************************************************)
EXTENDS Integers, Sequences, FiniteSets, TLC

VARIABLES
    FRAME_ALLOCATOR, \* the StackFrameAllocator in its UPSafeCell:
                     \* [current, end, recycled, borrowed, fired]
    low,             \* the lower bound given to init (the code does not keep it)
    inited,          \* whether init has been called
    outstanding,     \* frame numbers issued by alloc and not yet taken back by dealloc
    mem,             \* physical memory: frame number -> sequence of NIdx words
    trackers,        \* the FrameTrackers held outside page tables (sequence of ppn)
    pt,              \* the page table: [state, root_ppn, frames]
    mapped,          \* the vpns mapped by map and not unmapped since
    everMapped,      \* the vpns map has succeeded on since the table was built
    batch,           \* progress of frame_allocator_test
    lastOp,          \* the last call: [op, arg, ret, pre]
    fatal            \* a panic has happened

vars == <<FRAME_ALLOCATOR, low, inited, outstanding, mem, trackers, pt, mapped,
          everMapped, batch, lastOp, fatal>>

(***************************************************************************)
(* Bounds of the model.                                                    *)
(***************************************************************************)
\* largest lower bound init is given
MaxLow == 1
\* largest number of frames init is given
MaxFrames == 3
\* largest N of the allocate / free / allocate scenario
MaxBatch == 2

\* number of frames the kernel boots with, when the page table is alone
BootFrames == 5
\* number of frames the kernel boots with, when owners share them with the table
PoolFrames == 4
\* largest number of FrameTrackers held outside the page table
MaxHeld == 1
\* largest length given to translated_byte_buffer
MaxLen == 4

\* number of frames of physical memory: those below the allocator's range,
\* those it manages, and one above them
NumFrames == MaxLow + BootFrames + 1
PPNs == 0 .. (NumFrames - 1)

None == <<>>
Some(x) == <<x>>

Range(s) == {s[i] : i \in 1 .. Len(s)}
Last(s) == s[Len(s)]
Front(s) == SubSeq(s, 1, Len(s) - 1)

(***************************************************************************)
(* StackFrameAllocator                                                     *)
(***************************************************************************)
\* FrameAllocator::new
StackFrameAllocator_new == [current |-> 0, end |-> 0, recycled |-> <<>>]

\* StackFrameAllocator::init
init(a, l, r) == [a EXCEPT !.current = l, !.end = r]

\* StackFrameAllocator::remain_num
remain_num(a) == a.end - a.current + Len(a.recycled)

\* a plausible bug: the free list is used as a queue, oldest first
alloc_fifo(a) ==
    IF a.recycled # <<>>
    THEN [ret |-> Some(Head(a.recycled)), a |-> [a EXCEPT !.recycled = Tail(@)]]
    ELSE IF a.current = a.end
         THEN [ret |-> None, a |-> a]
         ELSE [ret |-> Some(a.current), a |-> [a EXCEPT !.current = @ + 1]]

\* a plausible bug: the recycled number is read but not popped
alloc_nopop(a) ==
    IF a.recycled # <<>>
    THEN [ret |-> Some(Last(a.recycled)), a |-> a]
    ELSE IF a.current = a.end
         THEN [ret |-> None, a |-> a]
         ELSE [ret |-> Some(a.current), a |-> [a EXCEPT !.current = @ + 1]]

\* a plausible bug: the bump pointer advances on a recycled frame too
alloc_bump(a) ==
    IF a.recycled # <<>>
    THEN [ret |-> Some(Last(a.recycled)),
          a |-> [a EXCEPT !.recycled = Front(@),
                          !.current = IF @ = a.end THEN @ ELSE @ + 1]]
    ELSE IF a.current = a.end
         THEN [ret |-> None, a |-> a]
         ELSE [ret |-> Some(a.current), a |-> [a EXCEPT !.current = @ + 1]]

\* StackFrameAllocator::alloc: [ret: Option<ppn>, a: the allocator afterwards]
alloc(a) ==
    IF a.recycled # <<>>
    THEN [ret |-> Some(Last(a.recycled)), a |-> [a EXCEPT !.recycled = Front(@)]]
    ELSE IF a.current = a.end
         THEN [ret |-> None, a |-> a]
         ELSE [ret |-> Some(a.current), a |-> [a EXCEPT !.current = @ + 1]]

\* a plausible bug: the freed number is put at the bottom of the stack
dealloc_front(a, ppn) ==
    IF ppn >= a.current \/ \E i \in 1 .. Len(a.recycled) : a.recycled[i] = ppn
    THEN [fatal |-> TRUE, a |-> a]
    ELSE [fatal |-> FALSE, a |-> [a EXCEPT !.recycled = <<ppn>> \o @]]

\* StackFrameAllocator::dealloc: [fatal, a: the allocator afterwards]
dealloc(a, ppn) ==
    IF ppn >= a.current \/ \E i \in 1 .. Len(a.recycled) : a.recycled[i] = ppn
    THEN [fatal |-> TRUE, a |-> a]
    ELSE [fatal |-> FALSE, a |-> [a EXCEPT !.recycled = Append(@, ppn)]]

(***************************************************************************)
(* Words of memory and page table entries                                  *)
(***************************************************************************)
\* number of entries of a page table node, and of words of a frame
NIdx == 2
IdxRange == 0 .. (NIdx - 1)

\* PTEFlags
PTE_V == 1
PTE_R == 2
PTE_W == 4
PTE_X == 8
PTE_U == 16
PTE_G == 32
PTE_A == 64
PTE_D == 128

ZeroWord == [rsv |-> 0, ppn |-> 0, rsw |-> 0, fl |-> 0]
\* what a frame may hold before anybody has cleaned it
JunkWord == [rsv |-> 1, ppn |-> 1, rsw |-> 1, fl |-> PTE_V + PTE_R]
ZeroFrame == [i \in IdxRange |-> ZeroWord]
JunkFrame == [i \in IdxRange |-> JunkWord]

\* a plausible bug: the page is not cleaned
FrameTracker_new_dirty(m, ppn) == m

\* FrameTracker::new: the frame's cells are all set to zero
FrameTracker_new(m, ppn) == [m EXCEPT ![ppn] = ZeroFrame]

\* Option::map(FrameTracker::new) on the result r of alloc
map_FrameTracker_new(r, m) ==
    [ret |-> r.ret, a |-> r.a,
     mem |-> IF r.ret = None THEN m ELSE FrameTracker_new(m, r.ret[1])]

\* UPSafeCell::new (sync/up.rs): the allocator inside its cell; borrowed tells
\* that a RefMut is out, fired that exclusive_access has panicked
UPSafeCell_new(v) ==
    [current |-> v.current, end |-> v.end, recycled |-> v.recycled,
     borrowed |-> FALSE, fired |-> FALSE]

\* UPSafeCell::exclusive_access: RefCell::borrow_mut, a panic when a RefMut is out
exclusive_access(c) ==
    IF c.borrowed THEN [c EXCEPT !.fired = TRUE] ELSE [c EXCEPT !.borrowed = TRUE]

\* a plausible bug: the RefMut is kept beyond the statement and never dropped
drop_RefMut_leak(c) == c

\* the drop of the RefMut at the end of the statement that took it
drop_RefMut(c) == [c EXCEPT !.borrowed = FALSE]

\* frame_alloc once exclusive_access has succeeded, r the result of
\* alloc().map(FrameTracker::new): both ran with the RefMut out, now it is dropped
frame_alloc_held(r) == [ret |-> r.ret, a |-> drop_RefMut(r.a), mem |-> r.mem]

\* frame_alloc: [ret: Option<FrameTracker>, a, mem]
frame_alloc(a, m) ==
    IF exclusive_access(a).fired
    THEN [ret |-> None, a |-> exclusive_access(a), mem |-> m]
    ELSE frame_alloc_held(map_FrameTracker_new(alloc(exclusive_access(a)), m))

\* frame_dealloc once exclusive_access has succeeded, r the result of dealloc:
\* the RefMut is dropped unless dealloc has panicked
frame_dealloc_held(r) == IF r.fatal THEN r ELSE [r EXCEPT !.a = drop_RefMut(r.a)]

\* frame_dealloc, which is also Drop for FrameTracker: [fatal, a]
frame_dealloc(a, ppn) ==
    IF exclusive_access(a).fired
    THEN [fatal |-> TRUE, a |-> exclusive_access(a)]
    ELSE frame_dealloc_held(dealloc(exclusive_access(a), ppn))

\* frame_remain_num: [ret, a]
frame_remain_num(a) ==
    IF exclusive_access(a).fired
    THEN [ret |-> 0, a |-> exclusive_access(a)]
    ELSE [ret |-> remain_num(exclusive_access(a)),
          a |-> drop_RefMut(exclusive_access(a))]

(***************************************************************************)
(* Addresses (mm/address.rs)                                               *)
(***************************************************************************)
\* From<usize> for PhysPageNum, for a number below 2^44
PhysPageNum(n) == [ext |-> 0, num |-> n]

\* words per page: the page size, in the unit the model addresses memory in
PAGE_SIZE == NIdx

VPNs == 0 .. (NIdx * NIdx * NIdx - 1)

\* VirtPageNum::indexes: the three digits of a vpn, most significant first
indexes(vpn) == <<(vpn \div (NIdx * NIdx)) % NIdx, (vpn \div NIdx) % NIdx, vpn % NIdx>>

\* VirtAddr::floor
floor(va) == va \div PAGE_SIZE

\* VirtAddr::page_offset
page_offset(va) == va % PAGE_SIZE

\* From<VirtPageNum> for VirtAddr
VirtAddr(vpn) == vpn * PAGE_SIZE

(***************************************************************************)
(* PageTableEntry                                                          *)
(***************************************************************************)
RECURSIVE BitOr(_, _)
\* the | of two flag sets
BitOr(x, y) ==
    IF x = 0 THEN y
    ELSE IF y = 0 THEN x
    ELSE (IF x % 2 = 1 \/ y % 2 = 1 THEN 1 ELSE 0) + 2 * BitOr(x \div 2, y \div 2)

RECURSIVE BitAnd(_, _)
\* the & of two flag sets
BitAnd(x, y) ==
    IF x = 0 \/ y = 0 THEN 0
    ELSE (IF x % 2 = 1 /\ y % 2 = 1 THEN 1 ELSE 0) + 2 * BitAnd(x \div 2, y \div 2)

\* a plausible bug: the flag set is declared without G, A and D
PTEFlags_all_VRWXU == PTE_V + PTE_R + PTE_W + PTE_X + PTE_U

\* PTEFlags::all: the bits the bitflags! block declares
PTEFlags_all == PTE_V + PTE_R + PTE_W + PTE_X + PTE_U + PTE_G + PTE_A + PTE_D

\* PTEFlags::from_bits: none when a bit that is no declared flag is set
from_bits(b) == IF BitAnd(b, 255 - PTEFlags_all) = 0 THEN Some(b) ELSE None

\* PageTableEntry::new: ppn.0 << 10 | flags.bits; the shift moves bits 44..53 of
\* the number into bits 54..63 of the word and drops the ten above them
PageTableEntry_new(ppn, flags) ==
    [rsv |-> ppn.ext % 1024, ppn |-> ppn.num, rsw |-> 0, fl |-> flags]

\* PageTableEntry::empty
PageTableEntry_empty == [rsv |-> 0, ppn |-> 0, rsw |-> 0, fl |-> 0]

\* PageTableEntry::ppn: bits >> 10 & (2^44 - 1)
PTE_ppn(pte) == PhysPageNum(pte.ppn)

\* PageTableEntry::flags: from_bits(bits as u8).unwrap(); bits as u8 is the field
\* of bits 0..7
PTE_flags(pte) == from_bits(pte.fl)[1]

\* PageTableEntry::is_valid
is_valid(pte) == BitAnd(PTE_flags(pte), PTE_V) # 0

(***************************************************************************)
(* PageTable                                                               *)
(***************************************************************************)
\* PageTable::find_pte: the place <<frame, index>> of the leaf entry, or none
find_pte(m, root_ppn, vpn) ==
    LET idxs == indexes(vpn)
        pte0 == m[root_ppn][idxs[1]]
        ppn1 == PTE_ppn(pte0).num
        pte1 == m[ppn1][idxs[2]]
        ppn2 == PTE_ppn(pte1).num
    IN  IF ~is_valid(pte0) THEN None
        ELSE IF ~is_valid(pte1) THEN None
        ELSE Some(<<ppn2, idxs[3]>>)

\* PageTable::translate: a copy of the entry find_pte found
translate(m, root_ppn, vpn) ==
    LET r == find_pte(m, root_ppn, vpn)
    IN  IF r = None THEN None ELSE Some(m[r[1][1]][r[1][2]])

\* a plausible bug: the tracker of a new node is forgotten, not pushed
create_node_leak(s, ppn, idx, r) ==
    IF r.ret = None
    THEN [s EXCEPT !.fatal = TRUE]
    ELSE [fatal |-> FALSE, a |-> r.a,
          mem |-> [r.mem EXCEPT ![ppn][idx] =
                      PageTableEntry_new(PhysPageNum(r.ret[1]), PTE_V)],
          frames |-> s.frames, next |-> r.ret[1]]

\* the branch of find_pte_create taken at an invalid entry, r the result of
\* frame_alloc: unwrap, write the entry, push the tracker
create_node(s, ppn, idx, r) ==
    IF r.ret = None
    THEN [s EXCEPT !.fatal = TRUE]
    ELSE [fatal |-> FALSE, a |-> r.a,
          mem |-> [r.mem EXCEPT ![ppn][idx] =
                      PageTableEntry_new(PhysPageNum(r.ret[1]), PTE_V)],
          frames |-> Append(s.frames, r.ret[1]), next |-> r.ret[1]]

\* a plausible bug: the walk makes a new node without looking at the entry
walk_create_always(s, ppn, idx) == create_node(s, ppn, idx, frame_alloc(s.a, s.mem))

\* one turn (i = 0 or 1) of the loop of find_pte_create, at entry idx of node
\* ppn; s is [fatal, a, mem, frames, next], next the node the walk goes on to
walk_create(s, ppn, idx) ==
    IF is_valid(s.mem[ppn][idx])
    THEN [s EXCEPT !.next = PTE_ppn(s.mem[ppn][idx]).num]
    ELSE create_node(s, ppn, idx, frame_alloc(s.a, s.mem))

\* the turn i = 2: the entry of the vpn's last index in node s.next is the result
walk_leaf(s, idx) ==
    [fatal |-> s.fatal, a |-> s.a, mem |-> s.mem, frames |-> s.frames,
     slot |-> <<s.next, idx>>]

\* the turns i = 1 and i = 2, after the turn i = 0 has left s
walk_rest(s, idxs) ==
    IF s.fatal THEN walk_leaf(s, idxs[3])
    ELSE walk_leaf(walk_create(s, s.next, idxs[2]), idxs[3])

\* PageTable::find_pte_create: [fatal, a, mem, frames, slot: <<frame, index>>]
find_pte_create(a, m, p, vpn) ==
    walk_rest(walk_create([fatal |-> FALSE, a |-> a, mem |-> m, frames |-> p.frames,
                           next |-> p.root_ppn],
                          p.root_ppn, indexes(vpn)[1]),
              indexes(vpn))

\* the body of map after find_pte_create(vpn).unwrap() has given r
map_pte(r, ppn, flags) ==
    IF r.fatal \/ is_valid(r.mem[r.slot[1]][r.slot[2]])
    THEN [fatal |-> TRUE, a |-> r.a, mem |-> r.mem, frames |-> r.frames]
    ELSE [fatal |-> FALSE, a |-> r.a, frames |-> r.frames,
          mem |-> [r.mem EXCEPT ![r.slot[1]][r.slot[2]] =
                      PageTableEntry_new(ppn, BitOr(flags, PTE_V))]]

\* PageTable::map: [fatal, a, mem, frames]
map(a, m, p, vpn, ppn, flags) == map_pte(find_pte_create(a, m, p, vpn), ppn, flags)

\* a plausible bug: unmap clears the whole node the leaf entry lies in
unmap_pte_wipe(r) ==
    IF r.fatal \/ ~is_valid(r.mem[r.slot[1]][r.slot[2]])
    THEN [fatal |-> TRUE, a |-> r.a, mem |-> r.mem, frames |-> r.frames]
    ELSE [fatal |-> FALSE, a |-> r.a, frames |-> r.frames,
          mem |-> [r.mem EXCEPT ![r.slot[1]] = ZeroFrame]]

\* the body of unmap after find_pte_create(vpn).unwrap() has given r
unmap_pte(r) ==
    IF r.fatal \/ ~is_valid(r.mem[r.slot[1]][r.slot[2]])
    THEN [fatal |-> TRUE, a |-> r.a, mem |-> r.mem, frames |-> r.frames]
    ELSE [fatal |-> FALSE, a |-> r.a, frames |-> r.frames,
          mem |-> [r.mem EXCEPT ![r.slot[1]][r.slot[2]] = PageTableEntry_empty]]

\* PageTable::unmap: [fatal, a, mem, frames]
unmap(a, m, p, vpn) == unmap_pte(find_pte_create(a, m, p, vpn))

\* PageTable::token: 8 << 60 | root_ppn, as [mode: bits 60..63, ppn: bits 0..43]
token(p) == [mode |-> 8, mid |-> 0, ppn |-> p.root_ppn]

\* a plausible bug: the root is read out of the token as out of an entry, >> 10
from_token_shifted(satp) ==
    [state |-> "view", root_ppn |-> satp.ppn \div 1024, frames |-> <<>>]

\* PageTable::from_token: the root is satp & (2^44 - 1), and no frame is owned
from_token(satp) == [state |-> "view", root_ppn |-> satp.ppn, frames |-> <<>>]

RECURSIVE drop_frames(_, _)
\* the drop of Vec<FrameTracker>: each tracker in turn, stopping at a panic
drop_frames(a, frames) ==
    IF frames = <<>> THEN [fatal |-> FALSE, a |-> a]
    ELSE LET r == frame_dealloc(a, Head(frames))
         IN  IF r.fatal THEN r ELSE drop_frames(r.a, Tail(frames))

(***************************************************************************)
(* Translation helpers                                                     *)
(***************************************************************************)
RECURSIVE byte_buffer_loop_noclip(_, _, _, _, _)
\* a plausible bug: the end of a slice is not clipped to the end of the range
byte_buffer_loop_noclip(m, page_table, start, end, v) ==
    IF ~(start < end) THEN [fatal |-> FALSE, v |-> v]
    ELSE LET vpn == floor(start)
             t == translate(m, page_table.root_ppn, vpn)
             slice == [ppn |-> PTE_ppn(t[1]), from |-> page_offset(start),
                       to |-> PAGE_SIZE]
         IN  IF t = None THEN [fatal |-> TRUE, v |-> v]
             ELSE byte_buffer_loop_noclip(m, page_table, VirtAddr(vpn + 1), end,
                                          Append(v, slice))

RECURSIVE byte_buffer_loop(_, _, _, _, _)
\* the while loop of translated_byte_buffer: [fatal, v], v the slices
\* [ppn, from, to) gathered so far
byte_buffer_loop(m, page_table, start, end, v) ==
    IF ~(start < end) THEN [fatal |-> FALSE, v |-> v]
    ELSE LET vpn == floor(start)
             t == translate(m, page_table.root_ppn, vpn)
             ppn == PTE_ppn(t[1])
             end_va == IF VirtAddr(vpn + 1) < end THEN VirtAddr(vpn + 1) ELSE end
             slice == IF page_offset(end_va) = 0
                      THEN [ppn |-> ppn, from |-> page_offset(start), to |-> PAGE_SIZE]
                      ELSE [ppn |-> ppn, from |-> page_offset(start),
                            to |-> page_offset(end_va)]
         IN  IF t = None THEN [fatal |-> TRUE, v |-> v]
             ELSE byte_buffer_loop(m, page_table, end_va, end, Append(v, slice))

\* translated_byte_buffer
translated_byte_buffer(m, satp, ptr, len) ==
    byte_buffer_loop(m, from_token(satp), ptr, ptr + len, <<>>)

\* translated_assign_ptr: [fatal, mem]; pa is the physical address of the word,
\* and as_mut().unwrap() panics on the null pointer, pa = 0
translated_assign_ptr(m, satp, ptr, value) ==
    LET page_table == from_token(satp)
        t == translate(m, page_table.root_ppn, floor(ptr))
        ppn == PTE_ppn(t[1])
        pa == ppn.num * PAGE_SIZE + page_offset(ptr)
    IN  IF t = None THEN [fatal |-> TRUE, mem |-> m]
        ELSE IF pa = 0 THEN [fatal |-> TRUE, mem |-> m]
        ELSE [fatal |-> FALSE,
              mem |-> [m EXCEPT ![ppn.num][page_offset(ptr)] = value]]

(***************************************************************************)
(* The allocator on its own: init, alloc, dealloc of any frame number,     *)
(* remain_num, and frame_allocator_test.                                   *)
(***************************************************************************)
NoBatch == [phase |-> "idle", n |-> 0, v |-> <<>>, first |-> {}, cur |-> 0]
NoPageTable == [state |-> "none", root_ppn |-> 0, frames |-> <<>>]
NoOp == [op |-> "none", arg |-> 0, ret |-> None, pre |-> 0]

Idle == ~fatal /\ batch.phase = "idle"

InitAlloc ==
    /\ FRAME_ALLOCATOR = UPSafeCell_new(StackFrameAllocator_new)
    /\ low = 0
    /\ inited = FALSE
    /\ outstanding = {}
    /\ mem = [f \in PPNs |-> ZeroFrame]
    /\ trackers = <<>>
    /\ pt = NoPageTable
    /\ mapped = {}
    /\ everMapped = {}
    /\ batch = NoBatch
    /\ lastOp = NoOp
    /\ fatal = FALSE

\* StackFrameAllocator::init, called once
DoInit(l, r) ==
    /\ Idle /\ ~inited
    /\ FRAME_ALLOCATOR' = init(FRAME_ALLOCATOR, l, r)
    /\ low' = l
    /\ inited' = TRUE
    /\ lastOp' = [op |-> "init", arg |-> l, ret |-> Some(r),
                  pre |-> remain_num(FRAME_ALLOCATOR)]
    /\ UNCHANGED <<outstanding, mem, trackers, pt, mapped, everMapped, batch, fatal>>

\* StackFrameAllocator::alloc
DoAlloc ==
    /\ Idle
    /\ LET r == alloc(FRAME_ALLOCATOR)
       IN  /\ FRAME_ALLOCATOR' = r.a
           /\ outstanding' = outstanding \cup Range(r.ret)
           /\ lastOp' = [op |-> "alloc", arg |-> 0, ret |-> r.ret,
                         pre |-> remain_num(FRAME_ALLOCATOR)]
    /\ UNCHANGED <<low, inited, mem, trackers, pt, mapped, everMapped, batch, fatal>>

\* StackFrameAllocator::dealloc of any frame number
DoDealloc(f) ==
    /\ Idle
    /\ LET r == dealloc(FRAME_ALLOCATOR, f)
       IN  /\ FRAME_ALLOCATOR' = r.a
           /\ fatal' = r.fatal
           /\ outstanding' = IF r.fatal THEN outstanding ELSE outstanding \ {f}
           /\ lastOp' = [op |-> "dealloc", arg |-> f,
                         ret |-> IF r.fatal THEN None ELSE Some(f),
                         pre |-> remain_num(FRAME_ALLOCATOR)]
    /\ UNCHANGED <<low, inited, mem, trackers, pt, mapped, everMapped, batch>>

\* StackFrameAllocator::remain_num
DoRemainNum ==
    /\ Idle
    /\ lastOp' = [op |-> "remain_num", arg |-> 0,
                  ret |-> Some(remain_num(FRAME_ALLOCATOR)),
                  pre |-> remain_num(FRAME_ALLOCATOR)]
    /\ UNCHANGED <<FRAME_ALLOCATOR, low, inited, outstanding, mem, trackers, pt,
                   mapped, everMapped, batch, fatal>>

\* frame_allocator_test, with n frames in place of 5: it starts here
TestBegin(n) ==
    /\ Idle /\ inited
    /\ batch' = [phase |-> "alloc1", n |-> n, v |-> <<>>, first |-> {}, cur |-> 0]
    /\ lastOp' = [op |-> "test", arg |-> n, ret |-> None,
                  pre |-> remain_num(FRAME_ALLOCATOR)]
    /\ UNCHANGED <<FRAME_ALLOCATOR, low, inited, outstanding, mem, trackers, pt,
                   mapped, everMapped, fatal>>

\* one turn of either loop: frame_alloc().unwrap(), v.push(frame)
TestAlloc ==
    /\ ~fatal /\ batch.phase \in {"alloc1", "alloc2"}
    /\ LET r == frame_alloc(FRAME_ALLOCATOR, mem)
           v2 == batch.v \o r.ret
       IN  /\ FRAME_ALLOCATOR' = r.a
           /\ mem' = r.mem
           /\ fatal' = (r.ret = None)
           /\ outstanding' = outstanding \cup Range(r.ret)
           /\ batch' = IF r.ret = None THEN batch
                       ELSE IF Len(v2) < batch.n THEN [batch EXCEPT !.v = v2]
                       ELSE IF batch.phase = "alloc1"
                            THEN [batch EXCEPT !.v = v2, !.first = Range(v2),
                                               !.phase = "clear"]
                            ELSE [batch EXCEPT !.v = v2, !.phase = "done"]
           /\ lastOp' = [op |-> "frame_alloc", arg |-> 0, ret |-> r.ret,
                         pre |-> remain_num(FRAME_ALLOCATOR)]
    /\ UNCHANGED <<low, inited, trackers, pt, mapped, everMapped>>

\* v.clear() and drop(v): the trackers are dropped one by one; the order is left open
TestDrop(i) ==
    /\ ~fatal /\ batch.phase \in {"clear", "done", "drop"}
    /\ i \in 1 .. Len(batch.v)
    /\ LET f == batch.v[i]
           r == frame_dealloc(FRAME_ALLOCATOR, f)
           v2 == SubSeq(batch.v, 1, i - 1) \o SubSeq(batch.v, i + 1, Len(batch.v))
       IN  /\ FRAME_ALLOCATOR' = r.a
           /\ fatal' = r.fatal
           /\ outstanding' = IF r.fatal THEN outstanding ELSE outstanding \ {f}
           /\ batch' = IF r.fatal THEN batch
                       ELSE IF v2 # <<>>
                            THEN [batch EXCEPT !.v = v2,
                                               !.phase = IF @ = "done" THEN "drop" ELSE @]
                       ELSE IF batch.phase = "clear"
                            THEN [batch EXCEPT !.v = v2, !.phase = "alloc2",
                                               !.cur = r.a.current]
                            ELSE NoBatch
           /\ lastOp' = [op |-> "frame_dealloc", arg |-> f,
                         ret |-> IF r.fatal THEN None ELSE Some(f),
                         pre |-> remain_num(FRAME_ALLOCATOR)]
    /\ UNCHANGED <<low, inited, mem, trackers, pt, mapped, everMapped>>

NextAlloc ==
    \/ \E l \in 0 .. MaxLow : \E r \in l .. (l + MaxFrames) : DoInit(l, r)
    \/ DoAlloc
    \/ \E f \in PPNs : DoDealloc(f)
    \/ DoRemainNum
    \/ \E n \in 1 .. MaxBatch : TestBegin(n)
    \/ TestAlloc
    \/ \E i \in 1 .. MaxBatch : TestDrop(i)

SpecAlloc == InitAlloc /\ [][NextAlloc]_vars

(***************************************************************************)
(* The kernel after mm::init: frames are taken through frame_alloc and     *)
(* given back only by dropping their FrameTracker; one page table is       *)
(* built, changed, looked up and destroyed.                                *)
(***************************************************************************)
\* the vpns map and unmap are called with: a pair sharing two index segments,
\* one sharing only the first, one sharing none
MapVPNs == {0, 1, NIdx, NIdx * NIdx}
\* a frame above the allocator's range; the other frame mapped is frame 0, below
\* the range, under a number that needs more than 44 bits
DataPPN == NumFrames - 1
\* the <<ppn, flags>> map is called with
MapArgs == {<<PhysPageNum(DataPPN), PTE_R>>,
            <<[ext |-> 1, num |-> 0], PTE_V + PTE_W + PTE_U>>}
\* the pointers given to the translation helpers: the start and the last word of
\* the first page, and the start of the second
Ptrs == {0, PAGE_SIZE - 1, PAGE_SIZE}

Live == ~fatal /\ pt.state = "live"

\* init_frame_allocator has run, with n frames from MaxLow on; the frames hold
\* zeros or whatever was there
Booted(n) ==
    /\ FRAME_ALLOCATOR = init(UPSafeCell_new(StackFrameAllocator_new), MaxLow, MaxLow + n)
    /\ low = MaxLow
    /\ inited = TRUE
    /\ outstanding = {}
    /\ mem \in {[f \in PPNs |-> ZeroFrame], [f \in PPNs |-> JunkFrame]}
    /\ trackers = <<>>
    /\ pt = NoPageTable
    /\ mapped = {}
    /\ everMapped = {}
    /\ batch = NoBatch
    /\ lastOp = NoOp
    /\ fatal = FALSE

Init == Booted(BootFrames)

InitFrames == Booted(PoolFrames)

\* frame_alloc by some owner, who keeps the tracker; arg tells whether the frame
\* held anything but zeros before it was handed out
FrameAlloc ==
    /\ ~fatal /\ Len(trackers) < MaxHeld
    /\ LET r == frame_alloc(FRAME_ALLOCATOR, mem)
       IN  /\ FRAME_ALLOCATOR' = r.a
           /\ mem' = r.mem
           /\ trackers' = trackers \o r.ret
           /\ fatal' = r.a.fired
           /\ outstanding' = outstanding \cup Range(r.ret)
           /\ lastOp' = [op |-> "frame_alloc",
                         arg |-> IF r.ret # None /\ mem[r.ret[1]] # ZeroFrame
                                 THEN 1 ELSE 0,
                         ret |-> r.ret, pre |-> remain_num(FRAME_ALLOCATOR)]
    /\ UNCHANGED <<low, inited, pt, mapped, everMapped, batch>>

\* Drop for FrameTracker, of a tracker an owner holds
DropTracker(i) ==
    /\ ~fatal /\ i \in 1 .. Len(trackers)
    /\ LET f == trackers[i]
           r == frame_dealloc(FRAME_ALLOCATOR, f)
       IN  /\ FRAME_ALLOCATOR' = r.a
           /\ fatal' = r.fatal
           /\ trackers' = SubSeq(trackers, 1, i - 1) \o SubSeq(trackers, i + 1, Len(trackers))
           /\ outstanding' = IF r.fatal THEN outstanding ELSE outstanding \ {f}
           /\ lastOp' = [op |-> "frame_dealloc", arg |-> f,
                         ret |-> IF r.fatal THEN None ELSE Some(f),
                         pre |-> remain_num(FRAME_ALLOCATOR)]
    /\ UNCHANGED <<low, inited, mem, pt, mapped, everMapped, batch>>

\* frame_remain_num
FrameRemainNum ==
    /\ ~fatal
    /\ LET r == frame_remain_num(FRAME_ALLOCATOR)
       IN  /\ FRAME_ALLOCATOR' = r.a
           /\ fatal' = r.a.fired
           /\ lastOp' = [op |-> "frame_remain_num", arg |-> 0, ret |-> Some(r.ret),
                         pre |-> remain_num(FRAME_ALLOCATOR)]
    /\ UNCHANGED <<low, inited, outstanding, mem, trackers, pt, mapped, everMapped,
                   batch>>

\* the owner of a frame fills it with its data
OwnerWrite(i) ==
    /\ ~fatal /\ i \in 1 .. Len(trackers)
    /\ mem' = [mem EXCEPT ![trackers[i]] = JunkFrame]
    /\ lastOp' = [op |-> "write", arg |-> trackers[i], ret |-> None,
                  pre |-> remain_num(FRAME_ALLOCATOR)]
    /\ UNCHANGED <<FRAME_ALLOCATOR, low, inited, outstanding, trackers, pt, mapped, everMapped,
                   batch, fatal>>

\* PageTable::new; arg tells whether the root frame held anything but zeros
\* before it was handed out
PageTableNew ==
    /\ ~fatal /\ pt.state = "none"
    /\ LET r == frame_alloc(FRAME_ALLOCATOR, mem)
       IN  /\ FRAME_ALLOCATOR' = r.a
           /\ mem' = r.mem
           /\ fatal' = (r.ret = None)
           /\ outstanding' = outstanding \cup Range(r.ret)
           /\ pt' = IF r.ret = None THEN pt
                    ELSE [state |-> "live", root_ppn |-> r.ret[1], frames |-> r.ret]
           /\ lastOp' = [op |-> "new",
                         arg |-> IF r.ret # None /\ mem[r.ret[1]] # ZeroFrame
                                 THEN 1 ELSE 0,
                         ret |-> r.ret,
                         pre |-> remain_num(FRAME_ALLOCATOR)]
    /\ mapped' = {}
    /\ everMapped' = {}
    /\ UNCHANGED <<low, inited, trackers, batch>>

\* PageTable::map
Map(vpn, ppn, flags) ==
    /\ Live
    /\ LET r == map(FRAME_ALLOCATOR, mem, pt, vpn, ppn, flags)
       IN  /\ FRAME_ALLOCATOR' = r.a
           /\ mem' = r.mem
           /\ pt' = [pt EXCEPT !.frames = r.frames]
           /\ fatal' = r.fatal
           /\ outstanding' = outstanding \cup Range(r.frames)
           /\ mapped' = IF r.fatal THEN mapped ELSE mapped \cup {vpn}
           /\ everMapped' = IF r.fatal THEN everMapped ELSE everMapped \cup {vpn}
           /\ lastOp' = [op |-> "map",
                         arg |-> [vpn |-> vpn, ppn |-> ppn, flags |-> flags],
                         ret |-> None, pre |-> remain_num(FRAME_ALLOCATOR)]
    /\ UNCHANGED <<low, inited, trackers, batch>>

\* PageTable::unmap
Unmap(vpn) ==
    /\ Live
    /\ LET r == unmap(FRAME_ALLOCATOR, mem, pt, vpn)
       IN  /\ FRAME_ALLOCATOR' = r.a
           /\ mem' = r.mem
           /\ pt' = [pt EXCEPT !.frames = r.frames]
           /\ fatal' = r.fatal
           /\ outstanding' = outstanding \cup Range(r.frames)
           /\ mapped' = IF r.fatal THEN mapped ELSE mapped \ {vpn}
           /\ lastOp' = [op |-> "unmap", arg |-> vpn, ret |-> None,
                         pre |-> remain_num(FRAME_ALLOCATOR)]
    /\ UNCHANGED <<low, inited, trackers, everMapped, batch>>

\* PageTable::translate
Translate(vpn) ==
    /\ Live
    /\ lastOp' = [op |-> "translate", arg |-> vpn,
                  ret |-> translate(mem, pt.root_ppn, vpn),
                  pre |-> remain_num(FRAME_ALLOCATOR)]
    /\ UNCHANGED <<FRAME_ALLOCATOR, low, inited, outstanding, mem, trackers, pt,
                   mapped, everMapped, batch, fatal>>

\* the drop of the view a helper built by from_token, when the helper returns
drop_view(a, satp) == drop_frames(a, from_token(satp).frames)

\* translated_byte_buffer(page_table.token(), ptr, len)
TranslatedByteBuffer(ptr, len) ==
    /\ Live
    /\ LET r == translated_byte_buffer(mem, token(pt), ptr, len)
           d == drop_view(FRAME_ALLOCATOR, token(pt))
       IN  /\ fatal' = (r.fatal \/ d.fatal)
           /\ FRAME_ALLOCATOR' = IF r.fatal THEN FRAME_ALLOCATOR ELSE d.a
           /\ lastOp' = [op |-> "translated_byte_buffer",
                         arg |-> [ptr |-> ptr, len |-> len],
                         ret |-> IF r.fatal THEN None ELSE Some(r.v),
                         pre |-> remain_num(FRAME_ALLOCATOR)]
    /\ UNCHANGED <<low, inited, outstanding, mem, trackers, pt, mapped, everMapped,
                   batch>>

\* translated_assign_ptr(page_table.token(), ptr, value)
TranslatedAssignPtr(ptr, value) ==
    /\ Live
    /\ LET r == translated_assign_ptr(mem, token(pt), ptr, value)
           t == translate(mem, pt.root_ppn, floor(ptr))
           d == drop_view(FRAME_ALLOCATOR, token(pt))
       IN  /\ fatal' = (r.fatal \/ d.fatal)
           /\ FRAME_ALLOCATOR' = IF r.fatal THEN FRAME_ALLOCATOR ELSE d.a
           /\ mem' = r.mem
           /\ lastOp' = [op |-> "translated_assign_ptr",
                         arg |-> [ptr |-> ptr, len |-> 1],
                         ret |-> IF r.fatal THEN None
                                 ELSE Some(<<[ppn |-> PTE_ppn(t[1]),
                                              from |-> page_offset(ptr),
                                              to |-> page_offset(ptr) + 1]>>),
                         pre |-> remain_num(FRAME_ALLOCATOR)]
    /\ UNCHANGED <<low, inited, outstanding, trackers, pt, mapped, everMapped, batch>>

\* the page table goes out of scope: its trackers are dropped in order
DropPageTable ==
    /\ Live
    /\ LET r == drop_frames(FRAME_ALLOCATOR, pt.frames)
       IN  /\ FRAME_ALLOCATOR' = r.a
           /\ fatal' = r.fatal
           /\ outstanding' = outstanding \ Range(r.a.recycled)
           /\ lastOp' = [op |-> "drop", arg |-> Len(pt.frames), ret |-> None,
                         pre |-> remain_num(FRAME_ALLOCATOR)]
    /\ pt' = [pt EXCEPT !.state = "dropped", !.frames = <<>>]
    /\ mapped' = {}
    /\ everMapped' = {}
    /\ UNCHANGED <<low, inited, mem, trackers, batch>>

Next ==
    \/ PageTableNew
    \/ \E vpn \in MapVPNs : \E pf \in MapArgs : Map(vpn, pf[1], pf[2])
    \/ \E vpn \in MapVPNs : Unmap(vpn)
    \/ \E vpn \in MapVPNs : Translate(vpn)
    \/ \E ptr \in Ptrs : \E len \in 0 .. MaxLen : TranslatedByteBuffer(ptr, len)
    \/ \E ptr \in Ptrs : TranslatedAssignPtr(ptr, JunkWord)
    \/ DropPageTable

\* the page table alone, with its lookups and the translation helpers
Spec == Init /\ [][Next]_vars

NextTable ==
    \/ PageTableNew
    \/ \E vpn \in MapVPNs : \E pf \in MapArgs : Map(vpn, pf[1], pf[2])
    \/ \E vpn \in MapVPNs : Unmap(vpn)
    \/ DropPageTable

\* a table built by new() and changed by any sequence of map and unmap
SpecTable == Init /\ [][NextTable]_vars

NextHelpers ==
    \/ PageTableNew
    \/ \E vpn \in MapVPNs : \E pf \in MapArgs : Map(vpn, pf[1], pf[2])
    \/ \E ptr \in Ptrs : \E len \in 0 .. MaxLen : TranslatedByteBuffer(ptr, len)
    \/ \E ptr \in Ptrs : TranslatedAssignPtr(ptr, JunkWord)
    \/ DropPageTable

\* a table that is filled, read and written through the translation helpers,
\* and destroyed
SpecHelpers == Init /\ [][NextHelpers]_vars

NextFrames ==
    \/ FrameAlloc
    \/ \E i \in 1 .. MaxHeld : DropTracker(i)
    \/ \E i \in 1 .. MaxHeld : OwnerWrite(i)
    \/ FrameRemainNum
    \/ PageTableNew
    \/ \E vpn \in MapVPNs : Map(vpn, PhysPageNum(DataPPN), PTE_R)
    \/ \E vpn \in MapVPNs : Unmap(vpn)
    \/ DropPageTable

\* frame owners and the page table sharing the allocator; no lookups, and one
\* kind of leaf, since what a leaf holds plays no part in who owns which frame
SpecFrames == InitFrames /\ [][NextFrames]_vars

(***************************************************************************)
(* Page table entries on their own: any number and flag set encoded, any   *)
(* word decoded, and the entries a table writes while it is built.         *)
(***************************************************************************)
\* the frame numbers given to PageTableEntry::new: below 2^44, and one above
EncPPNs == {PhysPageNum(0), PhysPageNum(1), PhysPageNum(DataPPN),
            [ext |-> 1, num |-> DataPPN]}
\* the 8-bit flag sets
FlagBits == 0 .. 255
\* the words given to the decoders: any of bits 0..9, with some frame numbers
\* and something or nothing in bits 54..63
Words == [rsv : {0, 1023}, ppn : {0, DataPPN}, rsw : 0 .. 3, fl : FlagBits]

InitPTE == Booted(BootFrames) /\ mem[0] = ZeroFrame

\* PageTableEntry::new(ppn, flags), as the first thing done
EncodePTE(ppn, flags) ==
    /\ ~fatal /\ pt.state = "none" /\ lastOp = NoOp
    /\ lastOp' = [op |-> "pte_new", arg |-> [ppn |-> ppn, flags |-> flags],
                  ret |-> Some(PageTableEntry_new(ppn, flags)),
                  pre |-> remain_num(FRAME_ALLOCATOR)]
    /\ UNCHANGED <<FRAME_ALLOCATOR, low, inited, outstanding, mem, trackers, pt,
                   mapped, everMapped, batch, fatal>>

\* PageTableEntry::ppn and PageTableEntry::flags of a word; flags panics when
\* from_bits gives none; as the first thing done
DecodePTE(w) ==
    /\ ~fatal /\ pt.state = "none" /\ lastOp = NoOp
    /\ fatal' = (from_bits(w.fl) = None)
    /\ lastOp' = [op |-> "pte_decode", arg |-> w,
                  ret |-> Some([ppn |-> PTE_ppn(w), flags |-> from_bits(w.fl)]),
                  pre |-> remain_num(FRAME_ALLOCATOR)]
    /\ UNCHANGED <<FRAME_ALLOCATOR, low, inited, outstanding, mem, trackers, pt,
                   mapped, everMapped, batch>>

NextPTE ==
    \/ \E ppn \in EncPPNs : \E flags \in FlagBits : EncodePTE(ppn, flags)
    \/ \E w \in Words : DecodePTE(w)
    \/ PageTableNew
    \/ \E vpn \in MapVPNs : \E pf \in MapArgs : Map(vpn, pf[1], pf[2])

SpecPTE == InitPTE /\ [][NextPTE]_vars

(***************************************************************************)
(* Claims about the allocator on its own (SpecAlloc)                       *)
(***************************************************************************)
IsAlloc(op) == op.op \in {"alloc", "frame_alloc"}
IsDealloc(op) == op.op \in {"dealloc", "frame_dealloc"}

\* C3: dealloc(f) is fatal, and leaves the recycled pool as it was, for every f
\* that is not outstanding; only an outstanding f is pushed onto the pool.
C3_DeallocFatalUnlessOutstanding ==
    [][IsDealloc(lastOp') =>
         IF lastOp'.arg \in outstanding
         THEN /\ ~fatal'
              /\ FRAME_ALLOCATOR'.recycled = Append(FRAME_ALLOCATOR.recycled, lastOp'.arg)
         ELSE /\ fatal'
              /\ FRAME_ALLOCATOR'.recycled = FRAME_ALLOCATOR.recycled]_vars

\* C5: as long as nothing has been fatal, every frame number alloc returns lies
\* in the range [low, high) that init was given.
C5_AllocInRange ==
    (inited /\ ~fatal /\ IsAlloc(lastOp) /\ lastOp.ret # None)
        => (low <= lastOp.ret[1] /\ lastOp.ret[1] < FRAME_ALLOCATOR.end)

\* C6: alloc pops the most recently freed number and keeps current; with an
\* empty pool it returns none at current = end and changes nothing, and returns
\* current and advances it by one otherwise.  So the allocs that follow
\* init(low, high) return low, low + 1, ... and then none, and the alloc that
\* follows a dealloc(f) returns f.
C6_AllocOrder ==
    [][lastOp'.op = "alloc" =>
         LET a == FRAME_ALLOCATOR
             b == FRAME_ALLOCATOR'
             n == Cardinality(outstanding)
         IN  /\ IF a.recycled # <<>>
                THEN /\ lastOp'.ret = Some(a.recycled[Len(a.recycled)])
                     /\ b.current = a.current
                     /\ b.recycled = SubSeq(a.recycled, 1, Len(a.recycled) - 1)
                ELSE IF a.current = a.end
                     THEN lastOp'.ret = None /\ b = a /\ ~fatal'
                     ELSE /\ lastOp'.ret = Some(a.current)
                          /\ b.current = a.current + 1
                          /\ b.recycled = <<>>
             /\ b.end = a.end
             /\ (IsDealloc(lastOp) /\ lastOp.ret # None) => lastOp'.ret = lastOp.ret
             /\ (inited /\ a.recycled = <<>> /\ outstanding = low .. (low + n - 1))
                    => lastOp'.ret = IF n < a.end - low THEN Some(low + n) ELSE None]_vars

\* a frame freed earlier is handed out again while a later one waits in the pool
C6_Witness ==
    /\ inited /\ ~fatal
    /\ lastOp.op = "alloc" /\ lastOp.ret # None
    /\ lastOp.ret[1] + 1 < FRAME_ALLOCATOR.current
    /\ FRAME_ALLOCATOR.recycled # <<>>

\* C7: remain_num is end - current + |recycled|; a successful alloc lowers it
\* by one, a successful dealloc raises it by one, an alloc that returns none
\* keeps it, and so does an alloc followed at once by the dealloc of its frame.
C7_RemainNum ==
    [][LET rn == remain_num(FRAME_ALLOCATOR)
           rn2 == remain_num(FRAME_ALLOCATOR')
       IN  /\ (IsAlloc(lastOp') /\ lastOp'.ret # None) => rn2 = rn - 1
           /\ (IsAlloc(lastOp') /\ lastOp'.ret = None) => rn2 = rn
           /\ (IsDealloc(lastOp') /\ ~fatal') => rn2 = rn + 1
           /\ (/\ IsAlloc(lastOp) /\ lastOp.ret # None
               /\ IsDealloc(lastOp') /\ lastOp'.arg = lastOp.ret[1] /\ ~fatal')
                  => rn2 = lastOp.pre
           /\ lastOp'.op = "remain_num"
                  => lastOp'.ret = Some(FRAME_ALLOCATOR.end - FRAME_ALLOCATOR.current
                                        + Len(FRAME_ALLOCATOR.recycled))]_vars

\* a frame has just been freed into a pool that already held one
C7_Witness ==
    /\ IsDealloc(lastOp) /\ lastOp.ret # None /\ ~fatal
    /\ Len(FRAME_ALLOCATOR.recycled) >= 2
    /\ remain_num(FRAME_ALLOCATOR) = lastOp.pre + 1

\* C8: allocating N frames, freeing the N in any order and allocating N again
\* gives the same N frame numbers, and the second round does not move current.
C8_BatchReuse ==
    batch.phase = "done"
        => (Range(batch.v) = batch.first /\ FRAME_ALLOCATOR.current = batch.cur)

\* the second round is complete and came back in another order than the first
C8_Witness ==
    /\ batch.phase = "done" /\ batch.n >= 2 /\ ~fatal
    /\ batch.v[1] > batch.v[2]
    /\ Len(FRAME_ALLOCATOR.recycled) >= 1

(***************************************************************************)
(* Claims about frame ownership (SpecFrames)                               *)
(***************************************************************************)
\* every FrameTracker alive: those of the owners, then those of the page table
LiveTrackers == trackers \o pt.frames

NoRepeat(q) == \A i, j \in 1 .. Len(q) : i # j => q[i] # q[j]

\* C4: when frames are given back only by dropping their trackers, the
\* outstanding frames are never in the recycled pool and always within
\* [low, current), no number is in the pool twice, and no frame has two live
\* trackers (alloc never returns a frame that is still out).
C4_Outstanding ==
    /\ NoRepeat(LiveTrackers)
    /\ Range(LiveTrackers) = outstanding
    /\ outstanding \cap Range(FRAME_ALLOCATOR.recycled) = {}
    /\ outstanding \subseteq low .. (FRAME_ALLOCATOR.current - 1)
    /\ NoRepeat(FRAME_ALLOCATOR.recycled)

\* an owner has just been given a frame out of a pool that still holds others,
\* while earlier frames are out
C4_Witness ==
    /\ ~fatal /\ lastOp.op = "frame_alloc" /\ lastOp.ret # None
    /\ lastOp.ret[1] \in outstanding
    /\ FRAME_ALLOCATOR.recycled # <<>>
    /\ lastOp.ret[1] + 1 < FRAME_ALLOCATOR.current

\* C9: a frame handed out by frame_alloc holds only zeros at that moment,
\* whatever an earlier owner left in it.
C9_ZeroAtAlloc ==
    (lastOp.op \in {"frame_alloc", "new"} /\ lastOp.ret # None)
        => mem[lastOp.ret[1]] = ZeroFrame

\* memory started as zeros (frame 0, never handed out, still holds them), and the
\* frame just handed out held something else before: an earlier owner's data
C9_Witness ==
    /\ lastOp.op = "frame_alloc" /\ lastOp.ret # None /\ lastOp.arg = 1
    /\ mem[0] = ZeroFrame
    /\ mem[lastOp.ret[1]] = ZeroFrame

(***************************************************************************)
(* Claims about the page table and the translation helpers (Spec)          *)
(***************************************************************************)
\* C1: translate(vpn) returns an entry exactly for the vpns that are mapped now,
\* and none for every other vpn.
C1_TranslateOnlyMapped ==
    Live => \A vpn \in VPNs :
                (translate(mem, pt.root_ppn, vpn) # None) <=> (vpn \in mapped)

\* the virtual pages the range [ptr, ptr + len) touches
Touched(ptr, len) == {floor(va) : va \in ptr .. (ptr + len - 1)}

\* C2: translated_byte_buffer and translated_assign_ptr are fatal whenever a
\* page they touch is not mapped.
C2_HelpersFatalOnUnmapped ==
    (/\ pt.state = "live"
     /\ lastOp.op \in {"translated_byte_buffer", "translated_assign_ptr"}
     /\ \E vpn \in Touched(lastOp.arg.ptr, lastOp.arg.len) : vpn \notin mapped)
        => fatal

\* C10: map(vpn, ppn, flags) of an unmapped vpn, ppn below 2^44, makes
\* translate(vpn) an entry with that ppn and flags | V, and leaves the
\* translate result of every other vpn as it was.
C10_MapThenTranslate ==
    [][(lastOp'.op = "map" /\ ~fatal' /\ lastOp'.arg.ppn.ext = 0) =>
         LET arg == lastOp'.arg
             t == translate(mem', pt.root_ppn, arg.vpn)
         IN  /\ t # None
             /\ PTE_ppn(t[1]) = arg.ppn
             /\ PTE_flags(t[1]) = BitOr(arg.flags, PTE_V)
             /\ \A w \in VPNs \ {arg.vpn} :
                    translate(mem', pt.root_ppn, w) = translate(mem, pt.root_ppn, w)]_vars

\* the leaf entry of vpn is reachable and has its Valid bit set
LeafValid(m, root_ppn, vpn) ==
    /\ find_pte(m, root_ppn, vpn) # None
    /\ is_valid(translate(m, root_ppn, vpn)[1])

\* C11: map of a vpn whose leaf entry is valid is fatal and leaves that entry
\* as it was; unmap of a vpn whose leaf entry is not valid is fatal; unmap of a
\* mapped vpn writes the all-zero entry into exactly that leaf entry and changes
\* no other word of memory, so no other leaf entry.
C11_MapUnmapChecks ==
    [][/\ (lastOp'.op = "map" /\ LeafValid(mem, pt.root_ppn, lastOp'.arg.vpn))
            => /\ fatal'
               /\ translate(mem', pt.root_ppn, lastOp'.arg.vpn)
                      = translate(mem, pt.root_ppn, lastOp'.arg.vpn)
       /\ (lastOp'.op = "unmap" /\ ~LeafValid(mem, pt.root_ppn, lastOp'.arg))
            => fatal'
       /\ (lastOp'.op = "unmap" /\ LeafValid(mem, pt.root_ppn, lastOp'.arg))
            => LET slot == find_pte(mem, pt.root_ppn, lastOp'.arg)[1]
               IN  /\ ~fatal'
                   /\ mem' = [mem EXCEPT ![slot[1]][slot[2]] = ZeroWord]
                   /\ \A w \in VPNs \ {lastOp'.arg} :
                          LeafValid(mem, pt.root_ppn, w)
                              => translate(mem', pt.root_ppn, w)
                                     = translate(mem, pt.root_ppn, w)]_vars

\* a vpn has just been unmapped while its neighbour in the same node stays mapped
C11_Witness ==
    /\ lastOp.op = "unmap" /\ ~fatal /\ pt.state = "live"
    /\ lastOp.arg \in {0, 1}
    /\ ~LeafValid(mem, pt.root_ppn, lastOp.arg)
    /\ LeafValid(mem, pt.root_ppn, 1 - lastOp.arg)

\* C12: a page table fresh from new() gives none for find_pte and for translate
\* of every vpn, and owns exactly one frame, its root.
C12_FreshTable ==
    (lastOp.op = "new" /\ ~fatal)
        => /\ \A vpn \in VPNs : /\ find_pte(mem, pt.root_ppn, vpn) = None
                                /\ translate(mem, pt.root_ppn, vpn) = None
           /\ pt.frames = <<pt.root_ppn>>
           /\ lastOp.ret = Some(pt.root_ppn)

\* the root of the fresh table is a frame an earlier owner filled and gave back
C12_Witness ==
    /\ lastOp.op = "new" /\ ~fatal /\ lastOp.arg = 1
    /\ mem[0] = ZeroFrame
    /\ pt.state = "live" /\ Len(pt.frames) = 1

\* the first index segment, and the first two, of the vpns in a set
Prefix1(S) == {indexes(vpn)[1] : vpn \in S}
Prefix2(S) == {<<indexes(vpn)[1], indexes(vpn)[2]>> : vpn \in S}

\* C13: a map that succeeds allocates one node frame for each index prefix of
\* its vpn that no earlier map had (2 on a fresh table and for a vpn sharing no
\* prefix, 1 for one sharing the first segment only, 0 for one sharing the first
\* two), and the table owns 1 + the number of distinct first-segment prefixes +
\* the number of distinct two-segment prefixes ever mapped.
C13_NodesPerPrefix ==
    [][/\ (lastOp'.op = "map" /\ ~fatal')
            => LET vpn == lastOp'.arg.vpn
                   fresh1 == IF Prefix1({vpn}) \subseteq Prefix1(everMapped) THEN 0 ELSE 1
                   fresh2 == IF Prefix2({vpn}) \subseteq Prefix2(everMapped) THEN 0 ELSE 1
               IN  /\ Len(pt'.frames) = Len(pt.frames) + fresh1 + fresh2
                   /\ SubSeq(pt'.frames, 1, Len(pt.frames)) = pt.frames
                   /\ remain_num(FRAME_ALLOCATOR')
                          = remain_num(FRAME_ALLOCATOR) - (fresh1 + fresh2)
                   /\ everMapped = {} => fresh1 + fresh2 = 2
       /\ (pt'.state = "live" /\ ~fatal')
            => Len(pt'.frames) = 1 + Cardinality(Prefix1(everMapped'))
                                   + Cardinality(Prefix2(everMapped'))]_vars

\* maps of two vpns sharing both segments and of one sharing only the first have
\* been done: the root, two nodes for the first, none for the second, one for
\* the third
C13_Witness ==
    /\ lastOp.op = "map" /\ ~fatal /\ pt.state = "live"
    /\ everMapped = {0, 1, NIdx}
    /\ Len(pt.frames) = 4
    /\ mapped # everMapped

\* C14: the token of a table built by new() and any maps and unmaps carries 8 in
\* its top four bits and the root frame number in its low 44 bits, and
\* from_token of it is a view with that root, owning nothing, whose find_pte and
\* translate results are those of the table for every vpn.
C14_TokenRoundTrip ==
    Live => /\ token(pt).mode = 8
            /\ token(pt).ppn = pt.root_ppn
            /\ from_token(token(pt)).root_ppn = pt.root_ppn
            /\ from_token(token(pt)).frames = <<>>
            /\ \A vpn \in VPNs :
                  /\ find_pte(mem, from_token(token(pt)).root_ppn, vpn)
                         = find_pte(mem, pt.root_ppn, vpn)
                  /\ translate(mem, from_token(token(pt)).root_ppn, vpn)
                         = translate(mem, pt.root_ppn, vpn)

\* after maps and an unmap, the view finds the entry of a vpn that is still
\* mapped and none for a vpn whose nodes were never made
C14_Witness ==
    /\ Live /\ lastOp.op = "unmap"
    /\ \E vpn \in mapped :
          is_valid(translate(mem, from_token(token(pt)).root_ppn, vpn)[1])
    /\ \E vpn \in VPNs : translate(mem, from_token(token(pt)).root_ppn, vpn) = None

RECURSIVE SliceSum(_)
\* the total length of a sequence of slices
SliceSum(v) == IF v = <<>> THEN 0 ELSE (Head(v).to - Head(v).from) + SliceSum(Tail(v))

\* C15: for a range [ptr, ptr + len) whose pages are all mapped,
\* translated_byte_buffer returns one slice for each page the range touches, in
\* ascending order; slice i lies in the frame the entry of the i-th page names,
\* the first starts at the page offset of ptr, the last ends at the page offset
\* of ptr + len (the page end when that is aligned), all others start at 0 and
\* end at the page end, and the lengths add up to len.
C15_ByteBufferSlices ==
    (/\ pt.state = "live" /\ lastOp.op = "translated_byte_buffer"
     /\ Touched(lastOp.arg.ptr, lastOp.arg.len) \subseteq mapped)
        => /\ ~fatal
           /\ lastOp.ret # None
           /\ LET ptr == lastOp.arg.ptr
                  len == lastOp.arg.len
                  v == lastOp.ret[1]
                  n == Len(v)
              IN  /\ n = Cardinality(Touched(ptr, len))
                  /\ len = 0 => v = <<>>
                  /\ \A i \in 1 .. n :
                        /\ v[i].ppn = PTE_ppn(translate(mem, pt.root_ppn,
                                                        floor(ptr) + i - 1)[1])
                        /\ v[i].from = IF i = 1 THEN page_offset(ptr) ELSE 0
                        /\ v[i].to = IF i = n /\ page_offset(ptr + len) # 0
                                     THEN page_offset(ptr + len) ELSE PAGE_SIZE
                        /\ v[i].from < v[i].to
                  /\ SliceSum(v) = len

\* a range that starts and ends inside pages and has a whole page between them,
\* the first two pages lying in different frames
C15_Witness ==
    /\ pt.state = "live" /\ ~fatal /\ lastOp.op = "translated_byte_buffer"
    /\ lastOp.ret # None /\ Len(lastOp.ret[1]) = 3
    /\ lastOp.ret[1][1].from > 0
    /\ lastOp.ret[1][3].to < PAGE_SIZE
    /\ lastOp.ret[1][1].ppn # lastOp.ret[1][2].ppn
    /\ Touched(lastOp.arg.ptr, lastOp.arg.len) \subseteq mapped

\* C16: the drop of a table built by new() gives each frame the table owns, the
\* root and every node map made, back to the allocator once and without a
\* fatal error, so remain_num is again what it was before new(); the drop of
\* the view a helper built by from_token gives nothing back and leaves the
\* allocator as it was.
C16_DropReturnsFrames ==
    [][/\ lastOp'.op = "drop"
            => /\ ~fatal'
               /\ NoRepeat(pt.frames)
               /\ FRAME_ALLOCATOR'.recycled = FRAME_ALLOCATOR.recycled \o pt.frames
               /\ FRAME_ALLOCATOR'.current = FRAME_ALLOCATOR.current
               /\ remain_num(FRAME_ALLOCATOR')
                      = remain_num(FRAME_ALLOCATOR) + Len(pt.frames)
               /\ remain_num(FRAME_ALLOCATOR')
                      = remain_num(init(StackFrameAllocator_new, MaxLow,
                                        MaxLow + BootFrames))
       /\ lastOp'.op \in {"translated_byte_buffer", "translated_assign_ptr"}
            => /\ FRAME_ALLOCATOR' = FRAME_ALLOCATOR
               /\ drop_view(FRAME_ALLOCATOR, token(pt))
                      = [fatal |-> FALSE, a |-> FRAME_ALLOCATOR]]_vars

\* a table of a root and three nodes has been destroyed, after the helpers had
\* looked into it through a view
C16_Witness ==
    /\ lastOp.op = "drop" /\ ~fatal /\ lastOp.arg = 4
    /\ Len(FRAME_ALLOCATOR.recycled) = 4
    /\ mem[0] # ZeroFrame /\ mem[DataPPN] = ZeroFrame

\* C17: unmap, find_pte, translate and token take no frame from the allocator
\* and leave the set of frames the table owns as it was, in every state of the
\* table, also when unmap fails.
C17_OnlyMapAllocates ==
    [][lastOp'.op \in {"unmap", "translate"}
         => /\ FRAME_ALLOCATOR' = FRAME_ALLOCATOR
            /\ pt'.frames = pt.frames
            /\ token(pt') = token(pt)]_vars

\* the entries of the root and of the second-level nodes a walk for vpn passes
NodeEntries(m, root_ppn, vpn) ==
    LET e0 == m[root_ppn][indexes(vpn)[1]]
    IN  IF from_bits(e0.fl) = None \/ ~is_valid(e0) THEN {e0}
        ELSE {e0, m[PTE_ppn(e0).num][indexes(vpn)[2]]}

\* C18: for a frame number below 2^44 and any 8-bit flag set, the entry
\* PageTableEntry::new makes gives back that number and those flags; flags()
\* decodes every word; ppn() depends on bits 10..53 only and flags() on bits
\* 0..7 only; the all-zero entry is not valid; and the intermediate entries a
\* table holds are either all zero or a node's frame number with exactly V.
C18_PTERoundTrip ==
    /\ (lastOp.op = "pte_new" /\ lastOp.arg.ppn.ext = 0)
          => /\ from_bits(lastOp.ret[1].fl) # None
             /\ PTE_ppn(lastOp.ret[1]) = lastOp.arg.ppn
             /\ PTE_flags(lastOp.ret[1]) = lastOp.arg.flags
             /\ is_valid(lastOp.ret[1]) <=> (lastOp.arg.flags % 2 = 1)
    /\ lastOp.op = "pte_decode"
          => /\ ~fatal
             /\ lastOp.ret[1].flags # None
             /\ lastOp.ret[1].flags = Some(lastOp.arg.fl)
             /\ lastOp.ret[1].ppn = PhysPageNum(lastOp.arg.ppn)
             /\ \A w \in Words :
                   /\ w.ppn = lastOp.arg.ppn => PTE_ppn(w) = lastOp.ret[1].ppn
                   /\ w.fl = lastOp.arg.fl => Some(PTE_flags(w)) = lastOp.ret[1].flags
    /\ from_bits(PageTableEntry_empty.fl) # None
    /\ ~is_valid(PageTableEntry_empty)
    /\ PageTableEntry_empty = ZeroWord
    /\ (pt.state = "live" /\ ~fatal)
          => \A vpn \in VPNs : \A e \in NodeEntries(mem, pt.root_ppn, vpn) :
                 \/ e = ZeroWord
                 \/ /\ from_bits(e.fl) # None
                    /\ PTE_flags(e) = PTE_V
                    /\ e.ppn \in Range(pt.frames) \ {pt.root_ppn}
                    /\ e = PageTableEntry_new(PhysPageNum(e.ppn), PTE_V)

\* a word with the A and D bits and bits outside both fields has been decoded
C18_Witness ==
    /\ lastOp.op = "pte_decode" /\ ~fatal
    /\ BitAnd(lastOp.arg.fl, PTE_A + PTE_D) = PTE_A + PTE_D
    /\ lastOp.arg.rsv # 0 /\ lastOp.arg.rsw # 0 /\ lastOp.arg.ppn # 0
    /\ lastOp.ret[1].flags = Some(lastOp.arg.fl)

\* C19: exclusive_access never finds a RefMut out, whatever frame_alloc,
\* frame_dealloc, frame_remain_num, the drop of a tracker, PageTable::new, map,
\* unmap and the drop of a page table do and in whatever order: the guard never
\* fires, and between two operations no RefMut is out.
C19_NoReentrantAccess ==
    /\ ~FRAME_ALLOCATOR.fired
    /\ ~fatal => ~FRAME_ALLOCATOR.borrowed
    /\ lastOp.op = "frame_remain_num"
          => lastOp.ret = Some(remain_num(FRAME_ALLOCATOR))

\* a table of a root and two nodes has been destroyed, three trackers dropped
\* in a row, while an owner holds a frame
C19_Witness ==
    /\ lastOp.op = "drop" /\ lastOp.arg = 3 /\ ~fatal
    /\ Len(trackers) = 1
    /\ Len(FRAME_ALLOCATOR.recycled) >= 3
    /\ ~FRAME_ALLOCATOR.borrowed

====
